---- MODULE Spec2Model ----
(***************************************************************************)
(* Smart Home Energy Consumption Tracker (src/energy_tracker.py).          *)
(*                                                                         *)
(* The program is a Streamlit script: every widget interaction re-runs the *)
(* script top to bottom against the session state, the memoised            *)
(* load_data() and the file energy_consumption_data.csv.  One action below *)
(* is one such run of one page.                                            *)
(*                                                                         *)
(* Representation.                                                         *)
(*  - Text typed by the user (name, city, area) is a tuple of one-letter   *)
(*    strings, so that what pandas' CSV reader does with it (NA markers,   *)
(*    numeric inference) is computed from the characters.                  *)
(*  - Quantities of energy are held in eighths of a unit (Scale), costs in *)
(*    sixteenths of a rupee (CostScale): every value the script computes   *)
(*    is a binary fraction that Python floats hold exactly, and the scaled *)
(*    integers are those values.                                           *)
(*  - A date is the ordinal of a day; it stands for its '%Y-%m-%d' text,   *)
(*    which orders and compares as the ordinal does.                       *)
(***************************************************************************)
EXTENDS Integers, Sequences, FiniteSets, TLC

VARIABLES
    csv_file,           \* energy_consumption_data.csv: absent, or its rows (text)
    load_cache,         \* the memoised result of load_data(), once it has run
    user_data,          \* st.session_state.user_data
    setup_complete,     \* st.session_state.setup_complete
    daily_consumption,  \* st.session_state.daily_consumption
    page_out            \* what the last script run rendered

vars == <<csv_file, load_cache, user_data, setup_complete, daily_consumption, page_out>>

(***************************************************************************)
(* Bounds of the model.                                                    *)
(***************************************************************************)
\* dates offered by the date picker: 1 .. MaxDate, MaxDate being today
MaxDate == 2
\* successful saves recorded in one session (length of daily_consumption)
MaxSaves == 2
\* rows the table may hold
MaxRows == 2

(***************************************************************************)
(* Program constants.                                                      *)
(***************************************************************************)
\* hours are normalised to 8 hours; energy is held in 1/Scale units
Scale == 8
\* cost is held in 1/CostScale rupees
CostScale == 16
\* price per unit, 5.5, in CostScale-ths per Scale-th: 5.5 * 16 / 8
PriceNum == 11
\* solar units per hour, 1.5, in Scale-ths
SolarRate == 12
MinHours == 1
MaxHours == 24
MinSolarHours == 1
MaxSolarHours == 12
\* category thresholds, in units
LowLimit == 5
MediumLimit == 10
\* rows of the recent-data table
RecentRows == 10

\* an empty frame: no rows
NoData == <<>>
\* the file: absent, or present with its rows
NoFile == [exists |-> FALSE, rows |-> NoData]
File(rows) == [exists |-> TRUE, rows |-> rows]
\* the memo of load_data: not yet filled, or the frame of its first call
NoCache == [filled |-> FALSE, df |-> NoData]
Cached(df) == [filled |-> TRUE, df |-> df]

(***************************************************************************)
(* Text.                                                                   *)
(***************************************************************************)
Empty == <<>>
Al == <<"A", "l">>
N42 == <<"4", "2">>
NA == <<"N", "A">>
Pune == <<"P">>

Digits == {"0", "1", "2", "3", "4", "5", "6", "7", "8", "9"}

\* Python truthiness of a str
Truthy(s) == Len(s) > 0

Max(a, b) == IF a >= b THEN a ELSE b

RECURSIVE SumSeq(_)
SumSeq(s) == IF s = <<>> THEN 0 ELSE Head(s) + SumSeq(Tail(s))

RECURSIVE MaxSeq(_)
MaxSeq(s) == IF Len(s) = 1 THEN s[1] ELSE Max(Head(s), MaxSeq(Tail(s)))

Column(df, f) == [i \in 1..Len(df) |-> df[i][f]]

RECURSIVE SelectRows(_, _)
SelectRows(df, keep) ==
    IF df = <<>> THEN <<>>
    ELSE LET rest == SelectRows(Tail(df), [i \in 1..(Len(df) - 1) |-> keep[i + 1]])
         IN  IF keep[1] THEN <<Head(df)>> \o rest ELSE rest

(***************************************************************************)
(* Helper functions (lines 97-127).  They return units, as the source does. *)
(***************************************************************************)
calculate_base_consumption(home_type) ==
    CASE home_type = "1BHK" -> 3
      [] home_type = "2BHK" -> 4
      [] home_type = "3BHK" -> 5
      [] home_type = "4BHK" -> 6
      [] home_type = "Villa" -> 8
      [] OTHER -> 4

get_appliance_consumption(appliance) ==
    CASE appliance = "AC" -> 3
      [] appliance = "Fridge" -> 2
      [] appliance = "Washing Machine" -> 4
      [] appliance = "Dishwasher" -> 3
      [] appliance = "Water Heater" -> 5
      [] appliance = "Electric Stove" -> 4
      [] OTHER -> 1

\* the comparisons made strict
StrictCategory(units) ==
    IF units < LowLimit * Scale THEN "Low"
    ELSE IF units < MediumLimit * Scale THEN "Medium"
    ELSE "High"

\* units is in Scale-ths; the first component of the pair the source returns
get_consumption_category(units) ==
    IF units <= LowLimit * Scale THEN "Low"
    ELSE IF units <= MediumLimit * Scale THEN "Medium"
    ELSE "High"

\* selected_date.strftime('%A'); day 1 is a Monday
WeekdayNames ==
    <<"Monday", "Tuesday", "Wednesday", "Thursday", "Friday", "Saturday", "Sunday">>

DayName(d) == WeekdayNames[((d - 1) % 7) + 1]

\* dict.get(key, default)
DictGet(d, k, default) == IF k \in DOMAIN d THEN d[k] ELSE default

EmptyDict == [k \in {} |-> Empty]

(***************************************************************************)
(* The table on disk and pandas' conversions (lines 75-94).                *)
(*                                                                         *)
(* A row of the file is text.  A frame row holds what pandas holds: the    *)
(* user_name cell is a Python str, an int, a float or NaN, and the         *)
(* appliances_used cell is a list (a fresh record) or the str that         *)
(* repr(list) wrote.  The other columns are numbers, a date text or a      *)
(* weekday name, which read_csv and to_csv carry over unchanged.           *)
(***************************************************************************)
StrCell(s) == [t |-> "str", s |-> s]
IntCell(s) == [t |-> "int", s |-> s]
FloatCell(s) == [t |-> "float", s |-> s]
NaN == [t |-> "nan", s |-> Empty]

\* read_csv's default NA markers (those of up to four letters)
PandasNaValues ==
    { Empty, NA, <<"N", "a", "N">>, <<"n", "a", "n">>, <<"N", "/", "A">>,
      <<"n", "/", "a">>, <<"N", "U", "L", "L">>, <<"n", "u", "l", "l">>,
      <<"<", "N", "A", ">">>, <<"#", "N", "A">> }

IsIntText(s) == Len(s) > 0 /\ \A i \in 1..Len(s) : s[i] \in Digits

IsFloatText(s) ==
    /\ \E i \in 1..Len(s) : s[i] \in Digits
    /\ \A i \in 1..Len(s) : s[i] \in Digits \cup {"."}
    /\ Cardinality({i \in 1..Len(s) : s[i] = "."}) <= 1

\* repr of the float a numeral without sign, exponent or leading zero denotes
FloatRepr(s) == IF \E i \in 1..Len(s) : s[i] = "." THEN s ELSE s \o <<".", "0">>

\* the dtype read_csv infers for a column of texts: int64 when every value is an
\* integer, float64 when every value is a number or an NA marker, else object
InferDtype(texts) ==
    LET present == {i \in 1..Len(texts) : texts[i] \notin PandasNaValues}
    IN  IF present = 1..Len(texts) /\ \A i \in present : IsIntText(texts[i])
        THEN "int64"
        ELSE IF \A i \in present : IsFloatText(texts[i]) THEN "float64"
        ELSE "object"

ParseCell(text, dtype) ==
    IF text \in PandasNaValues THEN NaN
    ELSE CASE dtype = "int64" -> IntCell(text)
           [] dtype = "float64" -> FloatCell(FloatRepr(text))
           [] OTHER -> StrCell(text)

\* to_csv's text of a cell: NaN is written as the empty field (na_rep='')
CellText(cell) == IF cell.t = "nan" THEN Empty ELSE cell.s

ListCell(l) == [k |-> "list", v |-> l]
ReprCell(l) == [k |-> "repr", v |-> l]

\* pd.read_csv on the rows of the file
read_csv(rows) ==
    LET dtype == InferDtype(Column(rows, "user_name"))
    IN  [i \in 1..Len(rows) |->
            [rows[i] EXCEPT !.user_name = ParseCell(rows[i].user_name, dtype),
                            !.appliances_used = ReprCell(rows[i].appliances_used)]]

\* pd.DataFrame(data).to_csv(..., index=False): the rows it writes
to_csv(df) ==
    [i \in 1..Len(df) |->
        [df[i] EXCEPT !.user_name = CellText(df[i].user_name),
                      !.appliances_used = df[i].appliances_used.v]]

\* the body of load_data(): a missing file, and a file read_csv cannot read
\* (zero bytes), give an empty frame
ReadTable == IF csv_file.exists THEN read_csv(csv_file.rows) ELSE NoData

\* @st.cache_data: the body runs on the first call of the process only
load_data == IF load_cache.filled THEN load_cache.df ELSE ReadTable

\* df.drop_duplicates(subset=['date', 'user_name'], keep='last')
SameKey(a, b) == a.date = b.date /\ a.user_name = b.user_name

drop_duplicates(df) ==
    SelectRows(df, [i \in 1..Len(df) |->
                      ~ \E j \in (i + 1)..Len(df) : SameKey(df[i], df[j])])

\* pd.concat([existing, DataFrame([daily_data])]), or the one-row frame
Merge(existing, daily_data) ==
    IF existing = NoData THEN <<daily_data>> ELSE existing \o <<daily_data>>

(***************************************************************************)
(* Session state initialisation (lines 66-72) and the start of a process.  *)
(***************************************************************************)
Blank == [page |-> "none", status |-> "none"]

Init ==
    /\ csv_file = NoFile
    /\ load_cache = NoCache
    /\ user_data = EmptyDict
    /\ setup_complete = FALSE
    /\ daily_consumption = <<>>
    /\ page_out = Blank

(***************************************************************************)
(* Home Setup page, the Save Setup button (lines 167-183).                 *)
(***************************************************************************)
Today == MaxDate

SetupValid(name, city, area) == Truthy(name) /\ Truthy(city) /\ Truthy(area)

SaveSetup(name, city, area, people, home_type, home_facility, appliances) ==
    /\ IF SetupValid(name, city, area)
       THEN /\ user_data' = [name |-> name, city |-> city, area |-> area,
                             people |-> people, home_type |-> home_type,
                             home_facility |-> home_facility,
                             appliances |-> appliances, setup_date |-> Today]
            /\ setup_complete' = TRUE
            /\ page_out' = [page |-> "setup", status |-> "setup_saved"]
       ELSE /\ UNCHANGED <<user_data, setup_complete>>
            /\ page_out' = [page |-> "setup", status |-> "rejected"]
    /\ UNCHANGED <<csv_file, load_cache, daily_consumption>>

(***************************************************************************)
(* Daily Tracking page (lines 199-302).                                    *)
(* usage maps each appliance of the profile to the hours of its slider, or *)
(* to 0 when its checkbox is clear; solar_hours is 0 when the solar        *)
(* checkbox is clear.                                                      *)
(***************************************************************************)
\* the rate taken per hour instead of per 8 hours
ApplianceUnitsPerHour(appliance, hours) ==
    get_appliance_consumption(appliance) * hours * Scale

\* consumption = get_appliance_consumption(appliance) * (hours / 8), in Scale-ths
ApplianceUnits(appliance, hours) ==
    (get_appliance_consumption(appliance) * hours * Scale) \div 8

\* the keys of appliance_usage, in the order the loop inserts them
AppliancesUsed(appliances, usage) ==
    LET Used(a) == usage[a] > 0 IN SelectSeq(appliances, Used)

\* sum(appliance_usage.values())
ApplianceTotal(appliances, usage) ==
    LET used == AppliancesUsed(appliances, usage)
    IN  SumSeq([i \in 1..Len(used) |-> ApplianceUnits(used[i], usage[used[i]])])

\* solar_reduction = solar_hours * 1.5, 0 when solar is not used
SolarReduction(solar_hours) == IF solar_hours > 0 THEN solar_hours * SolarRate ELSE 0

\* the floor left out
NoFloor(x) == x

\* daily_consumption = max(0, daily_consumption)
FloorAtZero(x) == Max(0, x)

\* the running total of the script, after the floor
DailyTotal(base, appliance_total, solar_reduction) ==
    FloorAtZero(base * Scale + appliance_total - solar_reduction)

\* daily_consumption * 5.5, in CostScale-ths
EstimatedCost(total) == total * PriceNum

\* the dict the Save button builds
DailyData(selected_date, usage, solar_hours) ==
    LET appliances == DictGet(user_data, "appliances", <<>>)
        base == calculate_base_consumption(DictGet(user_data, "home_facility", "2BHK"))
        total == DailyTotal(base, ApplianceTotal(appliances, usage),
                            SolarReduction(solar_hours))
    IN  [date |-> selected_date,
         day |-> DayName(selected_date),
         user_name |-> StrCell(DictGet(user_data, "name", Empty)),
         base_consumption |-> base * Scale,
         appliance_consumption |-> ApplianceTotal(appliances, usage),
         solar_reduction |-> SolarReduction(solar_hours),
         total_consumption |-> total,
         estimated_cost |-> EstimatedCost(total),
         appliances_used |-> ListCell(AppliancesUsed(appliances, usage))]

\* the frame the Save button hands to save_data
UpsertFrame(existing, daily_data) == drop_duplicates(Merge(existing, daily_data))

\* what a failed to_csv may leave: the file as it was (the open failed), or the
\* file truncated and cut after any number of the new rows
FailedWrite(rows) ==
    {csv_file} \cup {File(SubSeq(rows, 1, n)) : n \in 0..(Len(rows) - 1)}

\* the state of the page's widgets, as the page shows it
Widgets(selected_date, usage, solar_hours) ==
    [selected_date |-> selected_date, usage |-> usage, solar_hours |-> solar_hours]

Metrics(d) ==
    [total |-> d.total_consumption,
     delta |-> d.total_consumption - d.base_consumption,
     category |-> get_consumption_category(d.total_consumption),
     cost |-> d.estimated_cost]

\* setup gate: st.warning and st.stop()
TrackingBlocked ==
    /\ ~ setup_complete
    /\ page_out' = [page |-> "tracking", status |-> "blocked"]
    /\ UNCHANGED <<csv_file, load_cache, user_data, setup_complete, daily_consumption>>

\* a run of the page without the Save button
TrackingView(selected_date, usage, solar_hours) ==
    /\ setup_complete
    /\ page_out' = [page |-> "tracking", status |-> "shown",
                    widgets |-> Widgets(selected_date, usage, solar_hours),
                    metrics |-> Metrics(DailyData(selected_date, usage, solar_hours))]
    /\ UNCHANGED <<csv_file, load_cache, user_data, setup_complete, daily_consumption>>

\* a run of the page with the Save button pressed; write_ok is whether to_csv succeeds
SaveDaily(selected_date, usage, solar_hours, write_ok) ==
    LET daily_data == DailyData(selected_date, usage, solar_hours)
        existing_data == load_data
        df == UpsertFrame(existing_data, daily_data)
    IN  /\ setup_complete
        /\ Len(daily_consumption) < MaxSaves
        /\ Len(df) <= MaxRows
        /\ load_cache' = Cached(existing_data)
        /\ IF write_ok
           THEN /\ csv_file' = File(to_csv(df))
                /\ daily_consumption' = Append(daily_consumption, daily_data)
                /\ page_out' = [page |-> "tracking", status |-> "saved",
                                widgets |-> Widgets(selected_date, usage, solar_hours),
                                metrics |-> Metrics(daily_data)]
           ELSE /\ csv_file' \in FailedWrite(to_csv(df))
                /\ UNCHANGED daily_consumption
                /\ page_out' = [page |-> "tracking", status |-> "save_failed",
                                widgets |-> Widgets(selected_date, usage, solar_hours),
                                metrics |-> Metrics(daily_data)]
        /\ UNCHANGED <<user_data, setup_complete>>

(***************************************************************************)
(* Analytics page (lines 305-366).                                         *)
(***************************************************************************)
\* the filter left out
NoUserFilter(data, name) == data

\* data[data['user_name'] == name], kept only when it is not empty
UserFilter(data, name) ==
    LET user_rows == SelectRows(data, [i \in 1..Len(data) |->
                                          data[i].user_name = StrCell(name)])
    IN  IF Truthy(name) /\ user_rows # NoData THEN user_rows ELSE data

\* data.sort_values('date'): rows of equal date come in an order the sort does
\* not promise, so every sorted arrangement is possible
SortedByDate(data) ==
    LET n == Len(data)
        perms == {p \in [1..n -> 1..n] : \A i, j \in 1..n : i # j => p[i] # p[j]}
    IN  {[i \in 1..n |-> data[p[i]]] :
            p \in {q \in perms : \A i \in 1..(n - 1) : data[q[i]].date <= data[q[i + 1]].date}}

\* data.tail(10)
Tail10(data) == SubSeq(data, Max(1, Len(data) - RecentRows + 1), Len(data))

\* groupby('day')['total_consumption'].mean(): per weekday, the sum and the count
DayAverages(data) ==
    LET days == {data[i].day : i \in 1..Len(data)}
    IN  [d \in days |->
            LET idx == {i \in 1..Len(data) : data[i].day = d}
                rows == SelectRows(data, [i \in 1..Len(data) |-> i \in idx])
            IN  [sum |-> SumSeq(Column(rows, "total_consumption")),
                 count |-> Len(rows)]]

Summary(data) ==
    [avg_consumption |-> [sum |-> SumSeq(Column(data, "total_consumption")),
                          count |-> Len(data)],
     total_cost |-> SumSeq(Column(data, "estimated_cost")),
     max_consumption |-> MaxSeq(Column(data, "total_consumption")),
     total_solar |-> SumSeq(Column(data, "solar_reduction"))]

ViewAnalytics ==
    LET loaded == load_data
    IN  /\ load_cache' = Cached(loaded)
        /\ IF loaded = NoData
           THEN page_out' = [page |-> "analytics", status |-> "no_data"]
           ELSE \E data \in SortedByDate(UserFilter(loaded, DictGet(user_data, "name", Empty))) :
                    page_out' = [page |-> "analytics", status |-> "shown",
                                 data |-> data,
                                 summary |-> Summary(data),
                                 day_avg |-> DayAverages(data),
                                 recent_data |-> Tail10(data)]
        /\ UNCHANGED <<csv_file, user_data, setup_complete, daily_consumption>>

(***************************************************************************)
(* Energy Tips page, the carbon footprint (lines 424-433).                 *)
(***************************************************************************)
\* sum of total_consumption over the session list, in Scale-ths
TotalUnits(days) == SumSeq(Column(days, "total_consumption"))

\* total_units * 0.85, in hundredths of Scale-ths of a kilogram
Co2(total_units) == total_units * 85

ViewTips ==
    /\ page_out' =
          IF daily_consumption # <<>>
          THEN [page |-> "tips", status |-> "footprint",
                total_units |-> TotalUnits(daily_consumption),
                co2_saved |-> Co2(TotalUnits(daily_consumption)),
                trees_equivalent |-> [num |-> Co2(TotalUnits(daily_consumption)), den |-> 22]]
          ELSE [page |-> "tips", status |-> "tips_only"]
    /\ UNCHANGED <<csv_file, load_cache, user_data, setup_complete, daily_consumption>>

(***************************************************************************)
(* The server process ends and a new one starts: the memoised load_data    *)
(* and the session state are gone, the file stays.                         *)
(***************************************************************************)
Restart ==
    /\ load_cache' = NoCache
    /\ user_data' = EmptyDict
    /\ setup_complete' = FALSE
    /\ daily_consumption' = <<>>
    /\ page_out' = Blank
    /\ UNCHANGED csv_file

(***************************************************************************)
(* Specification of the application: inputs of the widgets from small sets. *)
(***************************************************************************)
NameInputs == {Empty, Al, N42, NA}
PlaceInputs == {Empty, Pune}
HomeInputs == {"1BHK"}
ApplianceInputs == {<<"AC">>}
\* a day's widgets: the hours of every checked appliance, and the solar hours
DayInputs == {[hours |-> 8, solar |-> 0], [hours |-> 0, solar |-> MaxSolarHours]}
Dates == 1..MaxDate

ProfileAppliances ==
    LET appliances == DictGet(user_data, "appliances", <<>>)
    IN  {appliances[i] : i \in 1..Len(appliances)}

\* every appliance of the profile at the same hours
UsageInput(hours) == [a \in ProfileAppliances |-> hours]

Next ==
    \/ \E name \in NameInputs, city \in PlaceInputs, area \in PlaceInputs,
          home_facility \in HomeInputs, appliances \in ApplianceInputs :
          SaveSetup(name, city, area, 2, "Flat", home_facility, appliances)
    \/ TrackingBlocked
    \/ \E d \in Dates, in \in DayInputs :
          TrackingView(d, UsageInput(in.hours), in.solar)
    \/ \E d \in Dates, in \in DayInputs, write_ok \in BOOLEAN :
          SaveDaily(d, UsageInput(in.hours), in.solar, write_ok)
    \/ ViewAnalytics
    \/ ViewTips
    \/ Restart

Spec == Init /\ [][Next]_vars

(***************************************************************************)
(* Specification of the daily calculation: a session whose setup is done,  *)
(* with any home size and a choice of appliance lists, runs the Daily      *)
(* Tracking page once with any setting of its widgets.  One label outside  *)
(* the select box ("Studio") and one outside the multiselect ("Heater")    *)
(* stand for the labels the lookups answer with their defaults.            *)
(***************************************************************************)
CalcHomes == {"1BHK", "2BHK", "3BHK", "4BHK", "Villa", "Studio"}
CalcAppliances ==
    {"AC", "Fridge", "Washing Machine", "Dishwasher", "Water Heater",
     "Electric Stove", "Heater"}
CalcApplianceLists ==
    {<<>>} \cup {<<a>> : a \in CalcAppliances}
           \cup {<<"AC", "Fridge">>, <<"Water Heater", "Heater">>,
                 <<"Washing Machine", "Dishwasher">>, <<"Electric Stove", "AC">>}

CalcProfile(home_facility, appliances) ==
    [name |-> Al, city |-> Pune, area |-> Pune, people |-> 2, home_type |-> "Flat",
     home_facility |-> home_facility, appliances |-> appliances, setup_date |-> Today]

InitCalc ==
    /\ csv_file = NoFile
    /\ load_cache = NoCache
    /\ user_data \in {CalcProfile(h, a) : h \in CalcHomes, a \in CalcApplianceLists}
    /\ setup_complete = TRUE
    /\ daily_consumption = <<>>
    /\ page_out = Blank

SliderInputs == [ProfileAppliances -> {0} \cup (MinHours..MaxHours)]
SolarSlider == {0} \cup (MinSolarHours..MaxSolarHours)

NextCalc ==
    \/ /\ page_out = Blank
       /\ \E usage \in SliderInputs, solar \in SolarSlider :
             TrackingView(Today, usage, solar)
    \/ /\ page_out = Blank
       /\ \E usage \in SliderInputs, solar \in SolarSlider :
             SaveDaily(Today, usage, solar, TRUE)

SpecCalc == InitCalc /\ [][NextCalc]_vars

(***************************************************************************)
(* Properties.                                                             *)
(***************************************************************************)
\* the text to_csv writes for one frame row
RowText(r) == to_csv(<<r>>)[1]

SameTextKey(a, b) == a.date = b.date /\ a.user_name = b.user_name

LastSaved == daily_consumption[Len(daily_consumption)]

JustSaved == page_out.page = "tracking" /\ page_out.status = "saved"

RECURSIVE SumOver(_, _)
SumOver(S, f) ==
    IF S = {} THEN 0
    ELSE LET x == CHOOSE y \in S : TRUE IN f[x] + SumOver(S \ {x}, f)

\* C1: after a successful save of r1 and then of r2 under one (date, user_name),
\* load_data() returns exactly one record with that key, and it equals r2.
C1_LoadReturnsLastWrite ==
    LET n == Len(daily_consumption)
    IN  (JustSaved /\ n >= 2 /\ SameKey(daily_consumption[n - 1], daily_consumption[n])) =>
            LET r2 == RowText(daily_consumption[n])
                loaded == to_csv(load_data)
                hits == {i \in 1..Len(loaded) : SameTextKey(loaded[i], r2)}
            IN  Cardinality(hits) = 1 /\ \A i \in hits : loaded[i] = r2

\* C3: the persisted table holds at most one record for each (date, user_name).
C3_OneRowPerKey ==
    \A i, j \in 1..Len(csv_file.rows) :
        i # j => ~ SameTextKey(csv_file.rows[i], csv_file.rows[j])

\* C6: when the write of a save fails, the failure is reported, the session list
\* daily_consumption is unchanged and the persisted table is unchanged.
C6_FailedSaveChangesNothing ==
    [][(page_out'.page = "tracking" /\ page_out'.status = "save_failed") =>
          (daily_consumption' = daily_consumption /\ csv_file'.rows = csv_file.rows)]_vars

\* C7: a completed setup has a non-empty name, city and area, and every persisted
\* record has a non-empty user_name (a Save Setup with an empty field is rejected).
C7_NamesNeverEmpty ==
    /\ setup_complete =>
          Truthy(user_data.name) /\ Truthy(user_data.city) /\ Truthy(user_data.area)
    /\ \A i \in 1..Len(csv_file.rows) : csv_file.rows[i].user_name # Empty

\* C7, first part: a rejected Save Setup leaves user_data and setup_complete alone.
C7_RejectedSetupChangesNothing ==
    [][(page_out'.page = "setup" /\ page_out'.status = "rejected") =>
          (user_data' = user_data /\ setup_complete' = setup_complete)]_vars

\* C7, second part alone: a completed setup has a non-empty name, city and area.
C7_CompleteProfile ==
    setup_complete =>
        Truthy(user_data.name) /\ Truthy(user_data.city) /\ Truthy(user_data.area)

\* C8: after a successful save of a record with key k, every record the persisted
\* table held just before under another key is still in it, unchanged.
C8_SaveKeepsOtherKeys ==
    [][(page_out'.page = "tracking" /\ page_out'.status = "saved"
            /\ daily_consumption' # daily_consumption) =>
          LET saved == RowText(daily_consumption'[Len(daily_consumption')])
          IN  \A i \in 1..Len(csv_file.rows) :
                  ~ SameTextKey(csv_file.rows[i], saved) =>
                      \E j \in 1..Len(csv_file'.rows) : csv_file'.rows[j] = csv_file.rows[i]]_vars

\* C10: the session list daily_consumption holds at most one entry for each
\* (date, user_name), so the footprint counts a day saved again once.
C10_SessionListOnePerKey ==
    \A i, j \in 1..Len(daily_consumption) :
        i # j => ~ SameKey(daily_consumption[i], daily_consumption[j])

AnalyticsShown == page_out.page = "analytics" /\ page_out.status = "shown"

SessionName == DictGet(user_data, "name", Empty)

\* C9 as stated: with a name in the profile, the Analytics page shows and
\* summarises only loaded records whose user_name is that name.
C9_OnlyOwnRecords ==
    (AnalyticsShown /\ Truthy(SessionName)) =>
        \A i \in 1..Len(page_out.data) :
            CellText(page_out.data[i].user_name) = SessionName

\* the loaded records the page must rest on: those whose user_name equals the
\* session's name when there is one, every loaded record otherwise
C9_Basis ==
    LET loaded == load_cache.df
        own == {i \in 1..Len(loaded) : loaded[i].user_name = StrCell(SessionName)}
    IN  IF own # {} THEN own ELSE 1..Len(loaded)

\* C9 (amended): with a name in the profile, the summary metrics, the weekday
\* averages and the recent-records table are computed only from the loaded records
\* whose user_name equals that name, provided at least one loaded record has it;
\* when none has, they are computed from all loaded records.
C9_OwnRecordsWhenAny ==
    (AnalyticsShown /\ Truthy(SessionName)) =>
        LET loaded == load_cache.df
            basis == C9_Basis
            shown == page_out.data
            total == SumOver(basis, [i \in basis |-> loaded[i].total_consumption])
        IN  /\ Len(shown) = Cardinality(basis)
            /\ \E p \in [1..Len(shown) -> basis] :
                  /\ \A i, j \in 1..Len(shown) : i # j => p[i] # p[j]
                  /\ \A i \in 1..Len(shown) : shown[i] = loaded[p[i]]
            /\ page_out.summary.avg_consumption = [sum |-> total, count |-> Cardinality(basis)]
            /\ page_out.summary.total_cost =
                  SumOver(basis, [i \in basis |-> loaded[i].estimated_cost])
            /\ page_out.summary.total_solar =
                  SumOver(basis, [i \in basis |-> loaded[i].solar_reduction])
            /\ \E i \in basis : page_out.summary.max_consumption = loaded[i].total_consumption
            /\ \A i \in basis : page_out.summary.max_consumption >= loaded[i].total_consumption
            /\ DOMAIN page_out.day_avg = {loaded[i].day : i \in basis}
            /\ \A d \in DOMAIN page_out.day_avg :
                  LET of_day == {i \in basis : loaded[i].day = d}
                  IN  page_out.day_avg[d] =
                         [sum |-> SumOver(of_day, [i \in of_day |-> loaded[i].total_consumption]),
                          count |-> Cardinality(of_day)]
            /\ \A k \in 1..Len(page_out.recent_data) :
                  \E i \in basis : page_out.recent_data[k] = loaded[i]

\* the filter is at work: the loaded table holds the session's records and others
C9_Witness ==
    /\ AnalyticsShown
    /\ Truthy(SessionName)
    /\ \E i \in 1..Len(load_cache.df) : load_cache.df[i].user_name = StrCell(SessionName)
    /\ \E i \in 1..Len(load_cache.df) : load_cache.df[i].user_name # StrCell(SessionName)
    /\ Len(page_out.data) < Len(load_cache.df)

\* C2: every record of the persisted table has total_consumption >= 0.
C2_TotalNeverNegative ==
    \A i \in 1..Len(csv_file.rows) : csv_file.rows[i].total_consumption >= 0

\* a persisted record whose solar reduction exceeds base plus appliances
C2_Witness ==
    \E i \in 1..Len(csv_file.rows) :
        LET r == csv_file.rows[i]
        IN  /\ r.solar_reduction > r.base_consumption + r.appliance_consumption
            /\ r.total_consumption = 0

\* the tables of the claim, in units
C4_Base(home) ==
    CASE home = "1BHK" -> 3 [] home = "2BHK" -> 4 [] home = "3BHK" -> 5
      [] home = "4BHK" -> 6 [] home = "Villa" -> 8 [] OTHER -> 4

C4_Rate(a) ==
    CASE a = "AC" -> 3 [] a = "Fridge" -> 2 [] a = "Washing Machine" -> 4
      [] a = "Dishwasher" -> 3 [] a = "Water Heater" -> 5 [] a = "Electric Stove" -> 4
      [] OTHER -> 1

\* C4: the saved record has base_consumption = base(home size), appliance_consumption
\* = sum over the used appliances of rate * hours / 8, solar_reduction = 1.5 * solar
\* hours (0 if unused), total_consumption = max(0, base + appliance - solar) and
\* estimated_cost = 5.5 * total_consumption.
C4_SavedRecordValues ==
    JustSaved =>
        LET r == csv_file.rows[Len(csv_file.rows)]
            w == page_out.widgets
            used == {a \in DOMAIN w.usage : w.usage[a] > 0}
            rate_hours == SumOver(used, [a \in used |-> C4_Rate(a) * w.usage[a]])
            net == r.base_consumption + r.appliance_consumption - r.solar_reduction
        IN  /\ r.base_consumption = C4_Base(user_data.home_facility) * Scale
            /\ r.appliance_consumption * 8 = rate_hours * Scale
            /\ r.solar_reduction * 10 = 15 * w.solar_hours * Scale
            /\ r.total_consumption = IF net > 0 THEN net ELSE 0
            /\ r.estimated_cost * Scale * 10 = 55 * r.total_consumption * CostScale
            /\ r = RowText(LastSaved)

\* the example of the specification: 2BHK, AC and Fridge for 8 hours, no solar:
\* 9.0 units, Medium, cost 49.5
C4_Witness ==
    /\ JustSaved
    /\ user_data.home_facility = "2BHK"
    /\ page_out.widgets.usage = [a \in {"AC", "Fridge"} |-> 8]
    /\ page_out.widgets.solar_hours = 0
    /\ csv_file.rows[1].appliance_consumption = 5 * Scale
    /\ csv_file.rows[1].total_consumption = 9 * Scale
    /\ csv_file.rows[1].estimated_cost * 2 = 99 * CostScale
    /\ page_out.metrics.category = "Medium"

TrackingShown ==
    page_out.page = "tracking" /\ page_out.status \in {"shown", "saved", "save_failed"}

\* C5: the category is "Low" exactly when the total is <= 5, "Medium" exactly when
\* 5 < total <= 10, "High" exactly when total > 10.
C5_CategoryBands ==
    TrackingShown =>
        LET t == page_out.metrics.total
            c == page_out.metrics.category
        IN  /\ c = "Low" <=> t <= 5 * Scale
            /\ c = "Medium" <=> (5 * Scale < t /\ t <= 10 * Scale)
            /\ c = "High" <=> t > 10 * Scale

\* a total of exactly 5 units falls in the lower band
C5_Witness ==
    /\ TrackingShown
    /\ page_out.metrics.total = 5 * Scale
    /\ page_out.metrics.category = "Low"

\* a total of exactly 10 units falls in the middle band, and one of 10.125 in the top
C5_UpperBoundaryReached ==
    /\ TrackingShown
    /\ \/ page_out.metrics.total = 10 * Scale /\ page_out.metrics.category = "Medium"
       \/ page_out.metrics.total = 10 * Scale + 1 /\ page_out.metrics.category = "High"

====
